---- MODULE Spec2Model ----
(***************************************************************************)
(* Model of PMSG.py, the "Pending for Release under PMSGMBY" dashboard.    *)
(*                                                                         *)
(* The script is a Streamlit page: it is run top to bottom once per user   *)
(* interaction (a file put into or taken out of the uploader, a change of  *)
(* a sidebar selection).  One action of the model is one such interaction  *)
(* with the run of the whole script that it triggers; the run reads the    *)
(* date anew.  The widgets' values (the uploaded file, the two selections) *)
(* survive between runs, the data frames and tables are what the last run  *)
(* produced.                                                               *)
(*                                                                         *)
(* Data representation                                                     *)
(*   - a cell that pandas reads as missing (float nan) is the marker NaN;  *)
(*   - a date cell is [kind, d, m, y]: kind "dmy" is a text of the shape   *)
(*     day-month-year with these three numbers (not necessarily a date of  *)
(*     the calendar), kind "empty" is a cell without content;              *)
(*   - a sheet holds the cells of columns 0, 1, 2 and 5 of its rows and    *)
(*     nothing else;                                                       *)
(*   - a Timestamp is its proleptic Gregorian ordinal (day 1 = 0001-01-01);*)
(*   - a data frame is the sequence of its rows, each row carrying its     *)
(*     index label idx (the row's position in the uploaded sheet).         *)
(***************************************************************************)
EXTENDS Integers, Sequences, FiniteSets, TLC

VARIABLES
    status,         \* "waiting" (no file, st.stop()), "rendered", or the exception that ended the run
    raw_df,         \* rows of the uploaded sheet (columns 0, 1, 2 and 5)
    today,          \* date.today() as read by the last run, as [d, m, y]
    sel_sd,         \* value held by the "Sub Division" select box
    sd_choices,     \* options of the "Sub Division" select box that holds sel_sd
    sel_bucket,     \* value held by the "Age Bucket" select box
    df,             \* classified records
    filtered_df,    \* records after the filters
    kpi,            \* the five metric cards k1..k5
    final_summary,  \* summary table, Grand Total row last
    detail_view,    \* detail table
    days,           \* argument of ageing_bucket (classifier specification)
    bucket          \* result of ageing_bucket (classifier specification)

vars == <<status, raw_df, today, sel_sd, sd_choices, sel_bucket, df,
          filtered_df, kpi, final_summary, detail_view, days, bucket>>

-----------------------------------------------------------------------------
(* Bounds of the model *)

MaxRows == 2

MaxDays == 60

-----------------------------------------------------------------------------
(* Values *)

NaN == "NaN"

ALL == "ALL"

GrandTotal == "Grand Total"

Range(s) == {s[i] : i \in 1..Len(s)}

bucket_order ==
    << "0 to 7 Days",
       "8 to 15 Days",
       "16 to 30 Days",
       "31 to 45 Days",
       "More than 45 Days" >>

Buckets == Range(bucket_order)

RECURSIVE SumSeq(_)
SumSeq(s) == IF s = <<>> THEN 0 ELSE Head(s) + SumSeq(Tail(s))

-----------------------------------------------------------------------------
(* Inputs the model draws from *)

DateCell(k, d, m, y) == [kind |-> k, d |-> d, m |-> m, y |-> y]

DateCells ==
    { DateCell("dmy", 29, 2, 2024),    \* "29-02-2024", a leap day
      DateCell("dmy", 1, 3, 2024),     \* "01-03-2024", the day after
      DateCell("dmy", 30, 2, 2024),    \* "30-02-2024", not a calendar date
      DateCell("dmy", 21, 11, 1731) }  \* 106751 days before the leap day

ApplicationCells == {"APP-1", NaN}

ConsumerCells == {"CONS-1"}

SubDivisions == {"AB", "B"}

SubDivisionCells == SubDivisions \cup {NaN}

Row(date, app, cons, sd) ==
    [ installation_date |-> date, application_no |-> app,
      consumer_no |-> cons, sub_division |-> sd ]

\* the sheet rows of the model: complete rows of both sub-divisions, rows
\* with a cell that is empty or not a date, and a row of the year 1731
Rows ==
    { Row(DateCell("dmy", 1, 3, 2024), "APP-1", "CONS-1", "B"),
      Row(DateCell("dmy", 29, 2, 2024), "APP-1", "CONS-1", "AB"),
      Row(DateCell("dmy", 29, 2, 2024), NaN, "CONS-1", "B"),
      Row(DateCell("dmy", 1, 3, 2024), "APP-1", "CONS-1", NaN),
      Row(DateCell("dmy", 30, 2, 2024), "APP-1", "CONS-1", "AB"),
      Row(DateCell("dmy", 21, 11, 1731), "APP-1", "CONS-1", "AB") }

Files == UNION { [1..n -> Rows] : n \in 0..MaxRows }

\* the day of the first date cell, and 45 days later
Todays ==
    { [d |-> 29, m |-> 2, y |-> 2024],
      [d |-> 14, m |-> 4, y |-> 2024] }

\* code points of the characters of the sub-division names
codepoints == [ s \in SubDivisions |->
                  IF s = "AB" THEN <<65, 66>> ELSE <<66>> ]

-----------------------------------------------------------------------------
(* Calendar: pd.to_datetime(format="%d-%m-%Y") and .dt.strftime("%d-%m-%Y") *)

IsLeap(y) == (y % 4 = 0 /\ y % 100 # 0) \/ y % 400 = 0

DaysInMonth(y, m) ==
    IF m = 2 THEN (IF IsLeap(y) THEN 29 ELSE 28)
    ELSE IF m \in {4, 6, 9, 11} THEN 30 ELSE 31

\* days before the first of month m in a common year
DAYS_BEFORE_MONTH == <<0, 31, 59, 90, 120, 151, 181, 212, 243, 273, 304, 334>>

DaysBeforeMonth(y, m) ==
    DAYS_BEFORE_MONTH[m] + (IF m > 2 /\ IsLeap(y) THEN 1 ELSE 0)

DaysBeforeYear(y) ==
    (y - 1) * 365 + ((y - 1) \div 4) - ((y - 1) \div 100) + ((y - 1) \div 400)

toordinal(y, m, d) == DaysBeforeYear(y) + DaysBeforeMonth(y, m) + d

\* a day-month-year text names a date when month and day are in range
IsCalendarDate(c) ==
    /\ c.kind = "dmy"
    /\ c.y \in 1..9999
    /\ c.m \in 1..12
    /\ c.d \in 1..DaysInMonth(c.y, c.m)

\* the days whose midnight is a datetime64[ns] Timestamp:
\* 1677-09-22 to 2262-04-11
InTimestampBounds(c) ==
    /\ toordinal(1677, 9, 22) <= toordinal(c.y, c.m, c.d)
    /\ toordinal(c.y, c.m, c.d) <= toordinal(2262, 4, 11)

\* errors="coerce": what does not parse, or lies outside the Timestamps,
\* becomes NaT
to_datetime(c) ==
    IF IsCalendarDate(c) /\ InTimestampBounds(c)
    THEN [nat |-> FALSE, ordinal |-> toordinal(c.y, c.m, c.d)]
    ELSE [nat |-> TRUE, ordinal |-> 0]

\* ordinal -> day, month, year, by the civil calendar (400/100/4/1 year cycles)
fromordinal(o) ==
    LET n0   == o - 1
        n400 == n0 \div 146097
        r400 == n0 % 146097
        n100 == r400 \div 36524
        r100 == r400 % 36524
        n4   == r100 \div 1461
        r4   == r100 % 1461
        n1   == r4 \div 365
        r1   == r4 % 365
        year == n400 * 400 + n100 * 100 + n4 * 4 + n1 + 1
    IN  IF n1 = 4 \/ n100 = 4
        THEN [d |-> 31, m |-> 12, y |-> year - 1]
        ELSE LET estimate == (r1 + 50) \div 32
                 mth == IF DaysBeforeMonth(year, estimate) > r1
                        THEN estimate - 1 ELSE estimate
             IN  [d |-> r1 - DaysBeforeMonth(year, mth) + 1, m |-> mth, y |-> year]

strftime(o) == fromordinal(o)

-----------------------------------------------------------------------------
(* READ & PROCESS DATA *)

\* position of the last cell of a sheet row that has content, -1 for none
LastColumn(row) ==
    IF row.sub_division # NaN THEN 5
    ELSE IF row.consumer_no # NaN THEN 2
    ELSE IF row.application_no # NaN THEN 1
    ELSE IF row.installation_date.kind # "empty" THEN 0
    ELSE 0 - 1

\* pd.read_excel(header=None): the frame is as wide as the widest row, rows
\* being cut behind their last cell with content; a sheet without rows gives
\* a frame without columns
read_excel(file) ==
    [ columns |-> {c \in 0..5 : \E i \in 1..Len(file) : c <= LastColumn(file[i])},
      rows |-> file ]

\* df[["installation_date", "application_no", "consumer_no", "sub_division"]]
HasColumns(raw) == {0, 1, 2, 5} \subseteq raw.columns

\* rename, select, to_datetime: one record per sheet row, idx its index label
Parsed(raw) ==
    [ i \in 1..Len(raw.rows) |->
        [ idx |-> i,
          installation_date |-> to_datetime(raw.rows[i].installation_date),
          application_no |-> raw.rows[i].application_no,
          consumer_no |-> raw.rows[i].consumer_no,
          sub_division |-> raw.rows[i].sub_division ] ]

IsNotNaT(r) == ~r.installation_date.nat

\* df.dropna(subset=["installation_date"])
dropna(p) == SelectSeq(p, IsNotNaT)

\* the frame after dropna: the date column holds the day, never NaT
Retained(p) ==
    [ i \in 1..Len(p) |->
        [ idx |-> p[i].idx,
          installation_date |-> p[i].installation_date.ordinal,
          application_no |-> p[i].application_no,
          consumer_no |-> p[i].consumer_no,
          sub_division |-> p[i].sub_division ] ]

\* pd.Timedelta.max is 106751 days 23:47:16.854775807 (2^63 - 1 ns)
MaxTimedeltaDays == 106751

\* today - df["installation_date"] is a timedelta64[ns]: the subtraction
\* raises OverflowError when one difference is outside its range
Overflows(kept, tdy) ==
    \E i \in 1..Len(kept) :
        LET diff == toordinal(tdy.y, tdy.m, tdy.d) - kept[i].installation_date
        IN  diff > MaxTimedeltaDays \/ diff < 0 - MaxTimedeltaDays

\* (today - df["installation_date"]).dt.days + 1, the difference in range
days_pending(tdy, inst) == (toordinal(tdy.y, tdy.m, tdy.d) - inst) + 1

\* ageing_bucket with the first threshold exclusive (< 7 for <= 7)
ageing_bucket_exclusive(d) ==
    IF d < 7 THEN "0 to 7 Days"
    ELSE IF d <= 15 THEN "8 to 15 Days"
    ELSE IF d <= 30 THEN "16 to 30 Days"
    ELSE IF d <= 45 THEN "31 to 45 Days"
    ELSE "More than 45 Days"

ageing_bucket(d) ==
    IF d <= 7 THEN "0 to 7 Days"
    ELSE IF d <= 15 THEN "8 to 15 Days"
    ELSE IF d <= 30 THEN "16 to 30 Days"
    ELSE IF d <= 45 THEN "31 to 45 Days"
    ELSE "More than 45 Days"

\* the columns days_pending and age_bucket, added when no difference
\* overflows
Classified(p, tdy) ==
    [ i \in 1..Len(p) |->
        LET pending == days_pending(tdy, p[i].installation_date)
        IN  [ idx |-> p[i].idx,
              installation_date |-> p[i].installation_date,
              application_no |-> p[i].application_no,
              consumer_no |-> p[i].consumer_no,
              sub_division |-> p[i].sub_division,
              days_pending |-> pending,
              age_bucket |-> ageing_bucket(pending) ] ]

-----------------------------------------------------------------------------
(* SIDEBAR FILTERS *)

\* Python's < on str: by code points, a proper prefix first
RECURSIVE SeqLess(_, _)
SeqLess(a, b) ==
    IF b = <<>> THEN FALSE
    ELSE IF a = <<>> THEN TRUE
    ELSE IF Head(a) # Head(b) THEN Head(a) < Head(b)
    ELSE SeqLess(Tail(a), Tail(b))

StrLess(a, b) == SeqLess(codepoints[a], codepoints[b])

\* df["sub_division"].unique()
unique(d) == {d[i].sub_division : i \in 1..Len(d)}

\* ascending sequence of a set of strings
RECURSIVE sorted(_)
sorted(S) ==
    IF S = {} THEN <<>>
    ELSE LET least == CHOOSE x \in S : \A y \in S \ {x} : StrLess(x, y)
         IN  <<least>> \o sorted(S \ {least})

\* sorted() compares a float nan with a str: TypeError
SortRaises(S) == NaN \in S /\ S \ {NaN} # {}

\* ["ALL"] + sorted(df["sub_division"].unique()); a lone nan sorts as itself
sd_options(d) ==
    IF unique(d) = {NaN} THEN <<ALL, NaN>>
    ELSE <<ALL>> \o sorted(unique(d))

\* ["ALL"] + bucket_order
bucket_options == <<ALL>> \o bucket_order

-----------------------------------------------------------------------------
(* APPLY FILTERS *)

\* the == of pandas on an object column: nan equals nothing, itself included
Eq(cell, value) == cell # NaN /\ value # NaN /\ cell = value

ApplyFilters(d, ssd, sbk) ==
    LET KeepSd(r) == ssd # ALL => Eq(r.sub_division, ssd)
        KeepBucket(r) == sbk # ALL => Eq(r.age_bucket, sbk)
    IN  SelectSeq(SelectSeq(d, KeepSd), KeepBucket)

-----------------------------------------------------------------------------
(* KPI CARDS *)

\* (filtered_df["age_bucket"] == label).sum()
BucketCount(f, label) ==
    Cardinality({i \in 1..Len(f) : Eq(f[i].age_bucket, label)})

\* st.metric(label, value); the en dash of the labels is written "-"
Card(label, value) == [label |-> label, value |-> value]

KpiCards(f) ==
    << Card("Total", Len(f)),
       Card("0-7 Days", BucketCount(f, "0 to 7 Days")),
       Card("8-15 Days", BucketCount(f, "8 to 15 Days")),
       Card("16-30 Days", BucketCount(f, "16 to 30 Days")),
       Card(">45 Days", BucketCount(f, "More than 45 Days")) >>

-----------------------------------------------------------------------------
(* SUMMARY TABLE *)

\* groupby(["sub_division", "age_bucket"], dropna=True): rows with a nan key are left out
Grouped(f) == {i \in 1..Len(f) : f[i].sub_division # NaN}

\* aggfunc="count" of application_no: the non-null cells of the group
count(f, sd, b) ==
    Cardinality({i \in Grouped(f) :
                    /\ f[i].sub_division = sd
                    /\ f[i].age_bucket = b
                    /\ f[i].application_no # NaN})

\* pivot_table(index="sub_division", columns="age_bucket", fill_value=0):
\* index and columns are the keys that occur, both sorted
pivot_table(f) ==
    LET index == sorted({f[i].sub_division : i \in Grouped(f)})
        columns == {f[i].age_bucket : i \in Grouped(f)}
    IN  [ k \in 1..Len(index) |->
            [ sub_division |-> index[k],
              cells |-> [b \in columns |-> count(f, index[k], b)] ] ]

\* .reindex(columns=bucket_order, fill_value=0)
reindex(p) ==
    [ k \in 1..Len(p) |->
        [ sub_division |-> p[k].sub_division,
          cells |-> [ b \in Buckets |->
                        IF b \in DOMAIN p[k].cells THEN p[k].cells[b] ELSE 0 ] ] ]

\* row sum that stops before the last bucket column
RowSum_short(cells) ==
    SumSeq([j \in 1..(Len(bucket_order) - 1) |-> cells[bucket_order[j]]])

\* sum of the five bucket columns of one row
RowSum(cells) == SumSeq([j \in 1..Len(bucket_order) |-> cells[bucket_order[j]]])

\* summary["TOTAL"] = summary.sum(axis=1); reset_index; insert "Sr No."
Summary(f) ==
    LET p == reindex(pivot_table(f))
    IN  [ k \in 1..Len(p) |->
            [ SrNo |-> k,
              SubDivision |-> p[k].sub_division,
              cells |-> p[k].cells,
              TOTAL |-> RowSum(p[k].cells) ] ]

\* summary[bucket_order + ["TOTAL"]].sum()
ColumnSum(s, b) == SumSeq([k \in 1..Len(s) |-> s[k].cells[b]])

TotalSum(s) == SumSeq([k \in 1..Len(s) |-> s[k].TOTAL])

grand_row(s) ==
    [ SrNo |-> 0,
      SubDivision |-> GrandTotal,
      cells |-> [b \in Buckets |-> ColumnSum(s, b)],
      TOTAL |-> TotalSum(s) ]

\* pd.concat([summary, grand_row])
FinalSummary(f) ==
    LET summary == Summary(f)
    IN  Append(summary, grand_row(summary))

-----------------------------------------------------------------------------
(* DETAIL TABLE *)

\* insertion for an ascending sort
RECURSIVE InsertAscending(_, _)
InsertAscending(s, r) ==
    IF s = <<>> THEN <<r>>
    ELSE IF Head(s).days_pending <= r.days_pending
         THEN <<Head(s)>> \o InsertAscending(Tail(s), r)
         ELSE <<r>> \o s

\* place r behind the rows that are not smaller: ties keep the frame's order
RECURSIVE InsertDescending(_, _)
InsertDescending(s, r) ==
    IF s = <<>> THEN <<r>>
    ELSE IF Head(s).days_pending >= r.days_pending
         THEN <<Head(s)>> \o InsertDescending(Tail(s), r)
         ELSE <<r>> \o s

\* filtered_df.sort_values("days_pending", ascending=False); equal keys are
\* left in the order of the frame, as the sort does for frames of this size
RECURSIVE sort_values(_)
sort_values(f) ==
    IF f = <<>> THEN <<>>
    ELSE InsertDescending(sort_values(SubSeq(f, 1, Len(f) - 1)), f[Len(f)])

DetailView(f) ==
    LET detail_df == sort_values(f)
    IN  [ k \in 1..Len(detail_df) |->
            [ idx |-> detail_df[k].idx,
              SrNo |-> k,
              InstallationDate |-> strftime(detail_df[k].installation_date),
              ApplicationNumber |-> detail_df[k].application_no,
              ConsumerNumber |-> detail_df[k].consumer_no,
              SubDivision |-> detail_df[k].sub_division,
              PendingDays |-> detail_df[k].days_pending,
              AgeBucket |-> detail_df[k].age_bucket ] ]

-----------------------------------------------------------------------------
(* One run of the script *)

NoCards == <<>>

\* The select boxes: a box rendered by a run holds the value it held when the
\* previous run left a box with the same options, else its first option.  A
\* run that ends before the select boxes (it raises, or stops for want of a
\* file) leaves the held values as they are.
Run(file, tdy, held_sd, held_choices, held_bucket) ==
    LET raw == read_excel(file) IN
    IF ~HasColumns(raw)
    THEN [ status |-> "KeyError", df |-> <<>>, filtered_df |-> <<>>,
           sel_sd |-> held_sd, sd_choices |-> held_choices,
           sel_bucket |-> held_bucket,
           kpi |-> NoCards, final_summary |-> <<>>, detail_view |-> <<>> ]
    ELSE LET kept == Retained(dropna(Parsed(raw))) IN
         IF Overflows(kept, tdy)
         THEN [ status |-> "OverflowError", df |-> kept, filtered_df |-> <<>>,
                sel_sd |-> held_sd, sd_choices |-> held_choices,
                sel_bucket |-> held_bucket,
                kpi |-> NoCards, final_summary |-> <<>>, detail_view |-> <<>> ]
         ELSE
         LET d == Classified(kept, tdy) IN
         IF SortRaises(unique(d))
         THEN [ status |-> "TypeError", df |-> d, filtered_df |-> <<>>,
                sel_sd |-> held_sd, sd_choices |-> held_choices,
                sel_bucket |-> held_bucket,
                kpi |-> NoCards, final_summary |-> <<>>, detail_view |-> <<>> ]
         ELSE LET choices == sd_options(d)
                  ssd == IF held_choices = choices THEN held_sd ELSE ALL
                  f == ApplyFilters(d, ssd, held_bucket)
              IN  [ status |-> "rendered", df |-> d, filtered_df |-> f,
                    sel_sd |-> ssd, sd_choices |-> choices,
                    sel_bucket |-> held_bucket,
                    kpi |-> KpiCards(f),
                    final_summary |-> FinalSummary(f),
                    detail_view |-> DetailView(f) ]

\* a is a later day than b
Later(a, b) ==
    \/ a.y > b.y
    \/ a.y = b.y /\ a.m > b.m
    \/ a.y = b.y /\ a.m = b.m /\ a.d > b.d

\* the script runs: date.today() is read again and is not earlier than before
Rerun(file, held_sd, held_choices, held_bucket) ==
    \E tdy \in Todays :
        /\ ~Later(today, tdy)
        /\ today' = tdy
        /\ \E out \in {Run(file, tdy, held_sd, held_choices, held_bucket)} :
               /\ status' = out.status
               /\ df' = out.df
               /\ filtered_df' = out.filtered_df
               /\ sel_sd' = out.sel_sd
               /\ sd_choices' = out.sd_choices
               /\ sel_bucket' = out.sel_bucket
               /\ kpi' = out.kpi
               /\ final_summary' = out.final_summary
               /\ detail_view' = out.detail_view

-----------------------------------------------------------------------------
(* Pipeline specification *)

Init ==
    /\ status = "waiting"
    /\ raw_df = <<>>
    /\ today \in Todays
    /\ sel_sd = ALL
    /\ sd_choices = <<>>
    /\ sel_bucket = ALL
    /\ df = <<>>
    /\ filtered_df = <<>>
    /\ kpi = NoCards
    /\ final_summary = <<>>
    /\ detail_view = <<>>
    /\ days = 0
    /\ bucket = ""

\* the user puts a file into the uploader: the first one, or one in the place
\* of the file that is there, also after a run that raised
Upload ==
    /\ \E file \in Files :
          /\ raw_df' = file
          /\ Rerun(file, sel_sd, sd_choices, sel_bucket)
    /\ UNCHANGED <<days, bucket>>

\* the user takes the file out of the uploader: st.info, st.stop(); the run
\* ends before the select boxes, which keep the values they hold
Remove ==
    /\ status # "waiting"
    /\ status' = "waiting"
    /\ raw_df' = <<>>
    /\ df' = <<>>
    /\ filtered_df' = <<>>
    /\ kpi' = NoCards
    /\ final_summary' = <<>>
    /\ detail_view' = <<>>
    /\ UNCHANGED <<today, sel_sd, sd_choices, sel_bucket, days, bucket>>

\* the user picks another option of the "Sub Division" select box
SelectSubDivision ==
    /\ status = "rendered"
    /\ \E v \in Range(sd_choices) :
          /\ v # sel_sd
          /\ Rerun(raw_df, v, sd_choices, sel_bucket)
    /\ UNCHANGED <<raw_df, days, bucket>>

\* the user picks another option of the "Age Bucket" select box
SelectBucket ==
    /\ status = "rendered"
    /\ \E b \in Range(bucket_options) :
          /\ b # sel_bucket
          /\ Rerun(raw_df, sel_sd, sd_choices, b)
    /\ UNCHANGED <<raw_df, days, bucket>>

Next == Upload \/ Remove \/ SelectSubDivision \/ SelectBucket

Spec == Init /\ [][Next]_vars

-----------------------------------------------------------------------------
(* Classifier specification: ageing_bucket over a range of integers *)

InitBucket ==
    /\ status = "waiting"
    /\ raw_df = <<>>
    /\ today \in Todays
    /\ sel_sd = ALL
    /\ sd_choices = <<>>
    /\ sel_bucket = ALL
    /\ df = <<>>
    /\ filtered_df = <<>>
    /\ kpi = NoCards
    /\ final_summary = <<>>
    /\ detail_view = <<>>
    /\ days \in (0 - MaxDays)..MaxDays
    /\ bucket = ""

Classify ==
    /\ bucket = ""
    /\ bucket' = ageing_bucket(days)
    /\ UNCHANGED <<days, status, raw_df, today, sel_sd, sd_choices, sel_bucket, df,
                   filtered_df, kpi, final_summary, detail_view>>

NextBucket == Classify

SpecBucket == InitBucket /\ [][NextBucket]_vars

-----------------------------------------------------------------------------
(* Helpers of the properties *)

\* the run got past the loader (the frame after dropna exists)
Loaded == status \in {"rendered", "TypeError", "OverflowError"}

Rendered == status = "rendered"

IdxOf(frame) == {frame[i].idx : i \in 1..Len(frame)}

\* position of a label in the bucket table
BucketRank(b) == CHOOSE j \in 1..Len(bucket_order) : bucket_order[j] = b

\* a day-month-year text that names a day of the Gregorian calendar
ValidDMY(c) ==
    /\ c.kind = "dmy"
    /\ c.m \in 1..12
    /\ c.d \in 1..31
    /\ c.m \in {4, 6, 9, 11} => c.d <= 30
    /\ c.m = 2 => c.d <= 29
    /\ (c.m = 2 /\ c.d = 29) =>
           (c.y % 4 = 0 /\ (c.y % 100 # 0 \/ c.y % 400 = 0))

DMY(c) == [d |-> c.d, m |-> c.m, y |-> c.y]

\* day number of a calendar day, by the Julian Day Number formula
DayNumber(c) ==
    LET a == (14 - c.m) \div 12
        y == c.y + 4800 - a
        m == c.m + 12 * a - 3
    IN  c.d + (153 * m + 2) \div 5 + 365 * y + y \div 4 - y \div 100
            + y \div 400 - 32045

\* whole days from a to b, negative when a is later than b
WholeDays(a, b) == DayNumber(b) - DayNumber(a)

\* the sheet cell a record was read from
CellOf(r) == raw_df[r.idx].installation_date

-----------------------------------------------------------------------------
(* Properties *)

\* C1: ageing_bucket(d) is one of the five labels for every integer d, follows
\* the inclusive upper bounds 7, 15, 30, 45 of the table (d <= 0 included in
\* the first bucket), and is monotonic in d.
C1_AgeingBucketTable ==
    bucket # "" =>
        /\ bucket \in Buckets
        /\ (days <= 7) <=> (bucket = "0 to 7 Days")
        /\ (days \in 8..15) <=> (bucket = "8 to 15 Days")
        /\ (days \in 16..30) <=> (bucket = "16 to 30 Days")
        /\ (days \in 31..45) <=> (bucket = "31 to 45 Days")
        /\ (days >= 46) <=> (bucket = "More than 45 Days")
        /\ \A e \in days..MaxDays :
               BucketRank(ageing_bucket(e)) >= BucketRank(bucket)

C1_Witness == days = 7 /\ bucket = "0 to 7 Days"

\* C2: in the final summary every row, the Grand Total row included, has TOTAL
\* equal to the sum of its five bucket columns, and every column of the Grand
\* Total row (TOTAL too) is the sum of that column over the sub-division rows.
C2_SummaryTotals ==
    Rendered =>
        LET n == Len(final_summary) - 1
            RowsOf(col(_)) == SumSeq([k \in 1..n |-> col(final_summary[k])])
            Total(r) == r.TOTAL
        IN  /\ n >= 0
            /\ \A k \in 1..(n + 1) :
                   final_summary[k].TOTAL =
                       final_summary[k].cells["0 to 7 Days"]
                       + final_summary[k].cells["8 to 15 Days"]
                       + final_summary[k].cells["16 to 30 Days"]
                       + final_summary[k].cells["31 to 45 Days"]
                       + final_summary[k].cells["More than 45 Days"]
            /\ \A b \in Buckets :
                   LET Col(r) == r.cells[b]
                   IN  final_summary[n + 1].cells[b] = RowsOf(Col)
            /\ final_summary[n + 1].TOTAL = RowsOf(Total)

C2_Witness ==
    /\ Rendered
    /\ Len(final_summary) = 3
    /\ final_summary[1].cells["More than 45 Days"] = 1
    /\ final_summary[2].cells["31 to 45 Days"] = 1
    /\ final_summary[3].TOTAL = 2

\* C3: every record retained by the loader, for any value of today, has
\* days_pending equal to the whole days from installation_date to today plus
\* one, and that value is >= 1.
C3_DaysPendingAtLeastOne ==
    Loaded =>
        \A i \in 1..Len(df) :
            /\ "days_pending" \in DOMAIN df[i]
            /\ df[i].days_pending = WholeDays(DMY(CellOf(df[i])), today) + 1
            /\ df[i].days_pending >= 1

\* C4: the filter step returns exactly the records whose sub_division is the
\* selected one and whose age_bucket is the selected one (a selection "ALL"
\* matches every record), in the order of the input; with both selections
\* "ALL" the output is the input; a selection that no record matches gives the
\* empty set, and no run of a rendered page on the same file and day, whatever
\* the selections, raises.
FilterIsExact ==
    Rendered =>
        LET Match(r) ==
                /\ sel_sd # ALL => r.sub_division = sel_sd
                /\ sel_bucket # ALL => r.age_bucket = sel_bucket
        IN  /\ \A i \in 1..Len(filtered_df) :
                   /\ filtered_df[i] \in Range(df)
                   /\ Match(filtered_df[i])
            /\ \A i \in 1..Len(df) :
                   Match(df[i]) => df[i] \in Range(filtered_df)
            /\ \A i, j \in 1..Len(filtered_df) :
                   i < j => filtered_df[i].idx < filtered_df[j].idx
            /\ (sel_sd = ALL /\ sel_bucket = ALL) => filtered_df = df
            /\ (\A i \in 1..Len(df) : ~Match(df[i])) => filtered_df = <<>>

C4_FilterExact ==
    [][ /\ FilterIsExact'
        /\ (Rendered /\ raw_df' = raw_df /\ today' = today) => Rendered'
      ]_vars

\* C5: when no valid record is left (empty sheet, no parseable date, or all
\* records filtered out) the run does not fail, the summary is the Grand Total
\* row alone with all counts 0, and the detail table is empty.
C5_EmptyIsRendered ==
    LET valid == {i \in 1..Len(raw_df) : ValidDMY(raw_df[i].installation_date)}
    IN  (status # "waiting" /\ (valid = {} \/ (Rendered /\ filtered_df = <<>>)))
        =>  /\ Rendered
            /\ Len(final_summary) = 1
            /\ final_summary[1].SubDivision = GrandTotal
            /\ \A b \in Buckets : final_summary[1].cells[b] = 0
            /\ final_summary[1].TOTAL = 0
            /\ detail_view = <<>>

\* C6: the summary has one row per distinct value of sub_division in the
\* filtered set (the values the select box lists), with all five bucket columns
\* and 0 where no record matches, in ascending order of the name, numbered
\* 1..n, followed by one last row "Grand Total" numbered 0.
C6_SummaryRows ==
    Rendered =>
        LET n == Len(final_summary) - 1
            present == {filtered_df[i].sub_division : i \in 1..Len(filtered_df)}
        IN  /\ n >= 0
            /\ {final_summary[k].SubDivision : k \in 1..n} = present
            /\ n = Cardinality(present)
            /\ \A k \in 1..n :
                   /\ final_summary[k].SrNo = k
                   /\ DOMAIN final_summary[k].cells = Buckets
                   /\ \A b \in Buckets :
                          (\A i \in 1..Len(filtered_df) :
                               ~(/\ filtered_df[i].sub_division
                                        = final_summary[k].SubDivision
                                 /\ filtered_df[i].age_bucket = b))
                          => final_summary[k].cells[b] = 0
            /\ \A k \in 1..(n - 1) :
                   StrLess(final_summary[k].SubDivision,
                           final_summary[k + 1].SubDivision)
            /\ final_summary[n + 1].SubDivision = GrandTotal
            /\ final_summary[n + 1].SrNo = 0

\* C7: the loader keeps exactly the sheet rows whose column 0 is a
\* day-month-year text naming a calendar date, in sheet order; a row with
\* another content is left out without an error, and every retained record
\* holds the date of its cell (never a null).
C7_LoaderKeepsParseable ==
    (status # "waiting" /\ raw_df # <<>>) =>
        /\ Loaded
        /\ IdxOf(df) =
               {i \in 1..Len(raw_df) : ValidDMY(raw_df[i].installation_date)}
        /\ \A i, j \in 1..Len(df) : i < j => df[i].idx < df[j].idx
        /\ \A i \in 1..Len(df) :
               strftime(df[i].installation_date) = DMY(CellOf(df[i]))

\* C8: the detail table holds exactly the records of the filtered set, by
\* Pending (Days) descending, with Sr No. the 1-based position of the row.
C8_DetailSorted ==
    Rendered =>
        /\ Len(detail_view) = Len(filtered_df)
        /\ IdxOf(detail_view) = IdxOf(filtered_df)
        /\ \A k \in 1..Len(detail_view) :
               /\ detail_view[k].SrNo = k
               /\ \E i \in 1..Len(filtered_df) :
                      /\ filtered_df[i].idx = detail_view[k].idx
                      /\ filtered_df[i].application_no
                             = detail_view[k].ApplicationNumber
                      /\ filtered_df[i].consumer_no
                             = detail_view[k].ConsumerNumber
                      /\ filtered_df[i].sub_division
                             = detail_view[k].SubDivision
                      /\ filtered_df[i].days_pending
                             = detail_view[k].PendingDays
                      /\ filtered_df[i].age_bucket = detail_view[k].AgeBucket
                      /\ DMY(CellOf(filtered_df[i]))
                             = detail_view[k].InstallationDate
        /\ \A k \in 1..(Len(detail_view) - 1) :
               detail_view[k].PendingDays >= detail_view[k + 1].PendingDays

C8_Witness ==
    /\ Rendered
    /\ Len(detail_view) = 2
    /\ detail_view[1].idx = 2
    /\ detail_view[1].PendingDays > detail_view[2].PendingDays

\* C9: the TOTAL of the Grand Total row is the number of records of the
\* filtered set (the "Total" card, the number of detail rows), and every
\* sub-division row's bucket count is the number of filtered records with that
\* sub-division and bucket, empty application_no or sub_division included.
C9_SummaryCountsRecords ==
    Rendered =>
        LET n == Len(final_summary) - 1
        IN  /\ final_summary[n + 1].TOTAL = Len(filtered_df)
            /\ final_summary[n + 1].TOTAL = kpi[1].value
            /\ final_summary[n + 1].TOTAL = Len(detail_view)
            /\ \A k \in 1..n : \A b \in Buckets :
                   final_summary[k].cells[b] =
                       Cardinality({i \in 1..Len(filtered_df) :
                           /\ filtered_df[i].sub_division
                                  = final_summary[k].SubDivision
                           /\ filtered_df[i].age_bucket = b})

\* C10: the cards show the total and the count of each of the five buckets of
\* the filtered set, so the bucket cards sum to the "Total" card.
C10_CardsSumToTotal ==
    Rendered =>
        /\ kpi[1].value = Len(filtered_df)
        /\ \A b \in Buckets :
               \E c \in 2..Len(kpi) :
                   kpi[c].value = Cardinality({i \in 1..Len(filtered_df) :
                                                 filtered_df[i].age_bucket = b})
        /\ SumSeq([c \in 1..(Len(kpi) - 1) |-> kpi[c + 1].value]) = kpi[1].value

====
